---- MODULE Spec2Model ----
(***************************************************************************)
(* A model of the container toolkit of aocutils.go: the slice splicing     *)
(* functions Cut, Delete and Insert, the Stack methods, the Grid bounds    *)
(* predicate InBounds and the TreeNode enumeration GetNodes.               *)
(*                                                                         *)
(* A Go slice is a record [arr, len]: arr is the backing array seen from   *)
(* the slice's first element (Len(arr) is the capacity), len the length.   *)
(* Positions are 0-based as in the source; arr[i + 1] is the element at    *)
(* position i.  A run-time panic is the status "panic".                    *)
(***************************************************************************)
EXTENDS Integers, Sequences, FiniteSets, TLC

VARIABLES slice, last, prev,          \* sequence operations
          stack, log,                 \* Stack
          grid, coord, inb,           \* Grid
          firstChild, nextSibling, nodes   \* Tree

vars == <<slice, last, prev, stack, log, grid, coord, inb,
          firstChild, nextSibling, nodes>>

seqVars == <<slice, last, prev>>
stackVars == <<stack, log>>
gridVars == <<grid, coord, inb>>
treeVars == <<firstChild, nextSibling, nodes>>

\* ---- bounds ----
MaxLen == 3
MaxSpare == 1
MaxElem == 1
MaxOps == 4
MaxRows == 3
MaxCols == 4
MaxNodes == 4

\* ---- values ----
\* *new(T): the zero value of the element type
Zero == 0
\* the nil pointer of a TreeNode link
Nil == 0

Elems == 0..MaxElem

Min(a, b) == IF a < b THEN a ELSE b

Zeros(n) == [i \in 1..n |-> Zero]

\* The elements a slice shows: positions 0 .. len-1 of its backing array.
Contents(s) == SubSeq(s.arr, 1, s.len)

NoSlice == [arr |-> <<>>, len |-> 0]

\* The slices a caller can hold: any length, any spare capacity, any content
\* (the spare part of a backing array may hold anything).
Slices ==
    UNION { { [arr |-> a, len |-> n] : a \in [1..(n + c) -> Elems] } :
            <<n, c>> \in (0..MaxLen) \X (0..MaxSpare) }

\* ---- Go built-ins ----
\* s[low:] is legal iff 0 <= low <= len(s)
SliceFromOK(s, low) == 0 <= low /\ low <= s.len

\* s[:high] is legal iff 0 <= high <= cap(s)
SliceToOK(s, high) == 0 <= high /\ high <= Len(s.arr)

\* copy(dst, src) where dst and src are windows of one backing array:
\* dst starts at dstOff and is dstLen long, src likewise.  min(dstLen,
\* srcLen) elements are moved, overlap handled as by memmove.
copy(arr, dstOff, dstLen, srcOff, srcLen) ==
    LET n == Min(dstLen, srcLen)
    IN [i \in 1..Len(arr) |->
          IF i - 1 >= dstOff /\ i - 1 < dstOff + n
          THEN arr[i - dstOff + srcOff]
          ELSE arr[i]]

\* append(s, e): in place when there is spare capacity, else into a fresh
\* array with `grow` spare elements (the growth policy is the runtime's).
\* shared tells whether the result uses the argument's backing array.
append(s, e, grow) ==
    IF s.len < Len(s.arr)
    THEN [arr |-> [s.arr EXCEPT ![s.len + 1] = e], len |-> s.len + 1,
          shared |-> TRUE]
    ELSE [arr |-> Contents(s) \o <<e>> \o Zeros(grow), len |-> s.len + 1,
          shared |-> FALSE]

\* The spare capacities a reallocating append may leave; an append in place
\* allocates nothing.
Growth(s) == IF s.len < Len(s.arr) THEN {0} ELSE 0..MaxSpare

\* ---- results of a call ----
\* mem is the caller's backing array as the call leaves it, out the slice
\* returned.
Panic(mem) == [status |-> "panic", mem |-> mem, out |-> NoSlice]
Ok(mem, out) == [status |-> "ok", mem |-> mem, out |-> out]

CutMutant(s, start, end) ==
    IF ~SliceFromOK(s, start) \/ ~SliceFromOK(s, end)
    THEN Panic(s.arr)
    ELSE LET n == s.len
             h == n - end + start
             a1 == copy(s.arr, start, n - start, end + 1, n - end - 1)
             a2 == [i \in 1..Len(a1) |->
                      IF i - 1 >= h /\ i - 1 < n THEN Zero ELSE a1[i]]
         IN IF ~SliceToOK(s, h) THEN Panic(a2)
            ELSE Ok(a2, [arr |-> a2, len |-> h])

Cut(s, start, end) ==
    IF ~SliceFromOK(s, start) \/ ~SliceFromOK(s, end)
    THEN Panic(s.arr)
    ELSE LET n == s.len
             h == n - end + start
             a1 == copy(s.arr, start, n - start, end, n - end)
             a2 == [i \in 1..Len(a1) |->
                      IF i - 1 >= h /\ i - 1 < n THEN Zero ELSE a1[i]]
         IN IF ~SliceToOK(s, h) THEN Panic(a2)
            ELSE Ok(a2, [arr |-> a2, len |-> h])

Delete(s, index) ==
    IF ~SliceFromOK(s, index) \/ ~SliceFromOK(s, index + 1)
    THEN Panic(s.arr)
    ELSE LET n == s.len
             a1 == copy(s.arr, index, n - index, index + 1, n - index - 1)
             a2 == [a1 EXCEPT ![n] = Zero]
         IN Ok(a2, [arr |-> a2, len |-> n - 1])

InsertMutant(s, element, index, grow) ==
    LET ap == append(s, Zero, grow)
        s1 == [arr |-> ap.arr, len |-> ap.len]
        n1 == s1.len
    IN IF ~SliceFromOK(s1, index + 1) \/ ~SliceFromOK(s1, index)
       THEN Panic(IF ap.shared THEN ap.arr ELSE s.arr)
       ELSE LET a2 == [s1.arr EXCEPT ![index + 1] = element]
            IN Ok(IF ap.shared THEN a2 ELSE s.arr,
                  [arr |-> a2, len |-> n1])

Insert(s, element, index, grow) ==
    LET ap == append(s, Zero, grow)
        s1 == [arr |-> ap.arr, len |-> ap.len]
        n1 == s1.len
    IN IF ~SliceFromOK(s1, index + 1) \/ ~SliceFromOK(s1, index)
       THEN Panic(IF ap.shared THEN ap.arr ELSE s.arr)
       ELSE LET a1 == copy(s1.arr, index + 1, n1 - index - 1, index, n1 - index)
                a2 == [a1 EXCEPT ![index + 1] = element]
            IN Ok(IF ap.shared THEN a2 ELSE s.arr,
                  [arr |-> a2, len |-> n1])

\* ---- the caller of the sequence operations ----
\* The caller holds one slice and reassigns it from each call: s = Op(s, ..).
\* last records the latest call; when that call is a Delete applied to the
\* result of an Insert, prev records the Insert (NoCall otherwise).  A panic
\* ends the program.
NoCall == [op |-> "none", a |-> 0, b |-> 0, e |-> Zero, input |-> NoSlice,
           status |-> "ok", mem |-> <<>>, out |-> NoSlice]

Record(op, a, b, e, r) ==
    [op |-> op, a |-> a, b |-> b, e |-> e, input |-> slice,
     status |-> r.status, mem |-> r.mem, out |-> r.out]

Running == last.status = "ok"

Indexes == (0 - 1)..(slice.len + 1)

Step(rec) ==
    /\ Running
    /\ prev' = IF last.op = "Insert" /\ rec.op = "Delete" THEN last ELSE NoCall
    /\ last' = rec
    /\ slice' = IF rec.status = "ok" THEN rec.out
                ELSE [arr |-> rec.mem, len |-> slice.len]

CallCut ==
    \E start \in Indexes, end \in Indexes :
        Step(Record("Cut", start, end, Zero, Cut(slice, start, end)))

CallDelete ==
    \E index \in Indexes :
        Step(Record("Delete", index, 0, Zero, Delete(slice, index)))

CallInsert ==
    /\ slice.len < MaxLen
    /\ \E index \in Indexes, element \in Elems, grow \in Growth(slice) :
        Step(Record("Insert", index, 0, element,
                    Insert(slice, element, index, grow)))

\* ---- Stack ----
\* Every method has a value receiver: s is the method's own copy of the
\* caller's slice header.  Each operator returns the caller's backing array
\* as the call leaves it (mem), the method's local s when it returns (s) and
\* the element returned (ret).
StackRet(status, mem, s, ret) ==
    [status |-> status, mem |-> mem, s |-> s, ret |-> ret]

Push(s, element, grow) ==
    LET ap == append(s, element, grow)
    IN StackRet("ok", IF ap.shared THEN ap.arr ELSE s.arr,
                [arr |-> ap.arr, len |-> ap.len], Zero)

Pop(s) ==
    IF s.len = 0 THEN StackRet("panic", s.arr, s, Zero)
    ELSE StackRet("ok", s.arr, [arr |-> s.arr, len |-> s.len - 1],
                  s.arr[s.len])

Unshift(s, element, grow) ==
    StackRet("ok", s.arr,
             [arr |-> <<element>> \o Contents(s) \o
                      (IF s.len = 0 THEN <<>> ELSE Zeros(grow)),
              len |-> s.len + 1], Zero)

Shift(s) ==
    IF s.len = 0 THEN StackRet("panic", s.arr, s, Zero)
    ELSE StackRet("ok", s.arr, [arr |-> Tail(s.arr), len |-> s.len - 1],
                  s.arr[1])

\* The caller's stack after a method call: its header is the one it had (the
\* method assigned only its copy), its backing array is what the call left.
AfterCall(r) == [arr |-> r.mem, len |-> stack.len]

\* log records the calls made on stack: the method, its argument, the
\* caller's stack before the call, the outcome and the element returned.
StackStep(op, e, r) ==
    /\ Len(log) < MaxOps
    /\ \A i \in 1..Len(log) : log[i].status = "ok"
    /\ stack' = AfterCall(r)
    /\ log' = Append(log, [op |-> op, e |-> e, before |-> stack,
                           status |-> r.status, ret |-> r.ret])

CallPush ==
    \E element \in Elems, grow \in Growth(stack) :
        StackStep("Push", element, Push(stack, element, grow))

CallPop == StackStep("Pop", Zero, Pop(stack))

CallUnshift ==
    \E element \in Elems, grow \in 0..MaxSpare :
        StackStep("Unshift", element, Unshift(stack, element, grow))

CallShift == StackStep("Shift", Zero, Shift(stack))

\* ---- Grid ----
\* A grid of rows x cols cells; the element type plays no part in InBounds.
Grids == { [r \in 1..rows |-> Zeros(cols)] :
           <<rows, cols>> \in (1..MaxRows) \X (1..MaxCols) }

InBounds(g, c) ==
    c.y > 0 /\ c.x > 0 /\ c.y < Len(g) /\ c.x < Len(g[1])

\* inb is <<>> until InBounds has been called, then <<its result>> for coord.
CallInBounds ==
    \E x \in (0 - 1)..(MaxCols + 1), y \in (0 - 1)..(MaxRows + 1) :
        /\ coord' = [x |-> x, y |-> y]
        /\ inb' = <<InBounds(grid, coord')>>
        /\ UNCHANGED grid

\* ---- Tree ----
\* Nodes are named 1 .. MaxNodes; firstChild and nextSibling map a node to
\* the node its link points to, or Nil.  GetNodes returns copies of the
\* nodes it visits; a copy is represented by the name of the node copied.
Nodes == 1..MaxNodes

Links(n) == {Nil} \cup ((n + 1)..MaxNodes)

\* Trees and forests: links lead to later nodes (so there is no cycle) and
\* every node is the target of at most one link.
IsTree(fc, ns) ==
    \A m \in Nodes :
        Cardinality({n \in Nodes : fc[n] = m}) +
        Cardinality({n \in Nodes : ns[n] = m}) <= 1

LinkMaps == { f \in [Nodes -> {Nil} \cup Nodes] :
              \A n \in Nodes : f[n] \in Links(n) }

RECURSIVE GetNodesMutant(_)
GetNodesMutant(t) ==
    <<t>>
    \o (IF firstChild[t] # Nil THEN GetNodesMutant(firstChild[t]) ELSE <<>>)
    \o (IF nextSibling[t] # Nil THEN GetNodesMutant(nextSibling[t]) ELSE <<>>)

RECURSIVE GetNodes(_)
GetNodes(t) ==
    <<t>>
    \o (IF nextSibling[t] # Nil THEN GetNodes(nextSibling[t]) ELSE <<>>)
    \o (IF firstChild[t] # Nil THEN GetNodes(firstChild[t]) ELSE <<>>)

\* nodes[t] is what t.GetNodes() returned, <<>> while it has not been called.
CallGetNodes ==
    \E t \in Nodes :
        /\ nodes[t] = <<>>
        /\ nodes' = [nodes EXCEPT ![t] = GetNodes(t)]
        /\ UNCHANGED <<firstChild, nextSibling>>

\* ---- specifications ----
IdleStack == /\ stack = NoSlice
             /\ log = <<>>
IdleGrid == /\ grid = <<>>
            /\ coord = [x |-> 0, y |-> 0]
            /\ inb = <<>>
IdleTree == /\ firstChild = <<>>
            /\ nextSibling = <<>>
            /\ nodes = <<>>
IdleSeq == /\ slice = NoSlice
           /\ last = NoCall
           /\ prev = NoCall

InitSeq == /\ slice \in Slices
           /\ last = NoCall
           /\ prev = NoCall
           /\ IdleStack /\ IdleGrid /\ IdleTree

NextSeq == \/ CallCut /\ UNCHANGED <<stackVars, gridVars, treeVars>>
           \/ CallDelete /\ UNCHANGED <<stackVars, gridVars, treeVars>>
           \/ CallInsert /\ UNCHANGED <<stackVars, gridVars, treeVars>>

SpecSeq == InitSeq /\ [][NextSeq]_vars

InitStack == /\ stack \in Slices
             /\ log = <<>>
             /\ IdleSeq /\ IdleGrid /\ IdleTree

NextStack == \/ CallPush /\ UNCHANGED <<seqVars, gridVars, treeVars>>
             \/ CallPop /\ UNCHANGED <<seqVars, gridVars, treeVars>>
             \/ CallUnshift /\ UNCHANGED <<seqVars, gridVars, treeVars>>
             \/ CallShift /\ UNCHANGED <<seqVars, gridVars, treeVars>>

SpecStack == InitStack /\ [][NextStack]_vars

InitGrid == /\ grid \in Grids
            /\ coord = [x |-> 0, y |-> 0]
            /\ inb = <<>>
            /\ IdleSeq /\ IdleStack /\ IdleTree

NextGrid == CallInBounds /\ UNCHANGED <<seqVars, stackVars, treeVars>>

SpecGrid == InitGrid /\ [][NextGrid]_vars

InitTree == /\ firstChild \in LinkMaps
            /\ nextSibling \in LinkMaps
            /\ IsTree(firstChild, nextSibling)
            /\ nodes = [t \in Nodes |-> <<>>]
            /\ IdleSeq /\ IdleStack /\ IdleGrid

NextTree == CallGetNodes /\ UNCHANGED <<seqVars, stackVars, gridVars>>

SpecTree == InitTree /\ [][NextTree]_vars

\* ---- properties ----
Reverse(q) == [i \in 1..Len(q) |-> q[Len(q) + 1 - i]]

Range(q) == {q[i] : i \in 1..Len(q)}

LastCall == log[Len(log)]

\* C1: each of Push, Unshift, Pop and Shift changes the caller's stack: after
\* Push(e) or Unshift(e) on a stack of length n the caller's stack has length
\* n+1 with e last (Push) or first (Unshift); after Pop or Shift on a stack
\* of length n >= 1 the caller's stack has length n-1.
StackMutatesInPlace ==
    (Len(log) > 0 /\ LastCall.status = "ok") =>
        LET c == LastCall
            n == c.before.len
        IN /\ c.op = "Push" =>
                stack.len = n + 1 /\ Contents(stack)[n + 1] = c.e
           /\ c.op = "Unshift" =>
                stack.len = n + 1 /\ Contents(stack)[1] = c.e
           /\ c.op \in {"Pop", "Shift"} => stack.len = n - 1

\* C2: InBounds(grid, coord) is true exactly when 0 <= coord.y < number of
\* rows and 0 <= coord.x < length of row 0, so that row 0 and column 0 are
\* in bounds.
InBoundsIffInside ==
    inb # <<>> =>
        inb[1] = (/\ 0 <= coord.y /\ coord.y < Len(grid)
                  /\ 0 <= coord.x /\ coord.x < Len(grid[1]))

\* The nodes reachable from the nodes of S through firstChild and
\* nextSibling links, S included.
RECURSIVE Closure(_)
Closure(S) ==
    LET T == S \cup {firstChild[n] : n \in S} \cup {nextSibling[n] : n \in S}
        U == T \ {Nil}
    IN IF U = S THEN S ELSE Closure(U)

Reach(t) == IF t = Nil THEN {} ELSE Closure({t})

\* C3: t.GetNodes() is t, then the whole enumeration of t's nextSibling (if
\* any), then the whole enumeration of t's firstChild (if any); every node
\* reachable from t appears in it exactly once.
EnumerateShape ==
    \A t \in Nodes :
        nodes[t] # <<>> =>
            LET q == nodes[t]
                sib == nextSibling[t]
                ch == firstChild[t]
                ks == Cardinality(Reach(sib))
                kc == Cardinality(Reach(ch))
            IN /\ q[1] = t
               /\ Len(q) = 1 + ks + kc
               /\ Range(q) = Reach(t)
               /\ Cardinality(Range(q)) = Len(q)
               /\ Range(SubSeq(q, 2, 1 + ks)) = Reach(sib)
               /\ Range(SubSeq(q, 2 + ks, Len(q))) = Reach(ch)
               /\ (sib # Nil /\ nodes[sib] # <<>>) =>
                      SubSeq(q, 2, 1 + ks) = nodes[sib]
               /\ (ch # Nil /\ nodes[ch] # <<>>) =>
                      SubSeq(q, 2 + ks, Len(q)) = nodes[ch]

\* A node with a sibling and a child, all three enumerated, in a tree where
\* the enumeration of the node has at least four nodes.
EnumerateShapeWitness ==
    \E t \in Nodes :
        /\ nextSibling[t] # Nil /\ firstChild[t] # Nil
        /\ nodes[t] # <<>>
        /\ nodes[nextSibling[t]] # <<>>
        /\ nodes[firstChild[t]] # <<>>
        /\ Len(nodes[t]) >= 4

\* The tree R = 1, A = 2, B = 3, C = 4 with R.firstChild = A,
\* A.nextSibling = B, A.firstChild = C and no other link.
ExampleTree ==
    /\ \A n \in Nodes : firstChild[n] = (IF n = 1 THEN 2 ELSE
                                         IF n = 2 THEN 4 ELSE Nil)
    /\ \A n \in Nodes : nextSibling[n] = (IF n = 2 THEN 3 ELSE Nil)

\* C4 as stated: on the example tree, R.GetNodes() is [R, A, C, B].
ExampleChildFirst ==
    (ExampleTree /\ nodes[1] # <<>>) => nodes[1] = <<1, 2, 4, 3>>

\* C4 amended: on the example tree, R.GetNodes() is [R, A, B, C]: A's
\* sibling B is enumerated before A's child C.
ExampleSiblingFirst ==
    (ExampleTree /\ nodes[1] # <<>>) => nodes[1] = <<1, 2, 3, 4>>

ExampleEnumerated == ExampleTree /\ nodes[1] # <<>>

ValidInsert(c) == c.op = "Insert" /\ 0 <= c.a /\ c.a <= c.input.len

\* C5: for 0 <= index <= len(s), Insert(s, e, index) is s with e at position
\* index and the elements from index on moved right by one, and
\* Delete(Insert(s, e, index), index) equals s.
InsertDeleteRoundTrip ==
    /\ ValidInsert(last) =>
          LET in == Contents(last.input)
          IN /\ last.status = "ok"
             /\ Contents(last.out) =
                   SubSeq(in, 1, last.a) \o <<last.e>> \o
                   SubSeq(in, last.a + 1, Len(in))
    /\ (last.op = "Delete" /\ ValidInsert(prev) /\ last.a = prev.a) =>
          /\ last.status = "ok"
          /\ last.input = prev.out
          /\ Contents(last.out) = Contents(prev.input)

\* An element inserted between two elements, different from the one it
\* displaces, and then deleted again.
InsertDeleteWitness ==
    /\ last.op = "Delete" /\ ValidInsert(prev) /\ last.a = prev.a
    /\ prev.a = 1 /\ prev.input.len >= 2
    /\ prev.e # prev.input.arr[2]
    /\ last.status = "ok"

ValidCut(c) ==
    c.op = "Cut" /\ 0 <= c.a /\ c.a <= c.b /\ c.b <= c.input.len

\* C6: for 0 <= start <= end <= len(s), Cut(s, start, end) has length
\* len(s) - (end - start) and is s[0..start) followed by s[end..len(s)).
CutKeepsOutside ==
    ValidCut(last) =>
        LET in == Contents(last.input)
        IN /\ last.status = "ok"
           /\ last.out.len = Len(in) - (last.b - last.a)
           /\ Contents(last.out) =
                 SubSeq(in, 1, last.a) \o SubSeq(in, last.b + 1, Len(in))

\* A cut of a non-empty range with elements kept on both sides of it.
CutKeepsOutsideWitness ==
    /\ ValidCut(last) /\ last.status = "ok"
    /\ 0 < last.a /\ last.a < last.b /\ last.b < last.input.len

\* C7: N Push calls followed by N Pop calls on one stack return the pushed
\* elements in reverse order, and N Unshift calls followed by N Shift calls
\* return the unshifted elements in reverse order.
StackLIFO ==
    \A N \in 1..(MaxOps \div 2) :
        \A ops \in {<<"Push", "Pop">>, <<"Unshift", "Shift">>} :
            (/\ Len(log) = 2 * N
             /\ \A i \in 1..N : log[i].op = ops[1]
             /\ \A i \in (N + 1)..(2 * N) : log[i].op = ops[2])
            => /\ \A i \in 1..(2 * N) : log[i].status = "ok"
               /\ [i \in 1..N |-> log[N + i].ret] =
                  Reverse([i \in 1..N |-> log[i].e])

\* C8: Cut(seq, start, end) fails whenever start > end, end > len(seq) or an
\* index is negative, whatever the capacity of seq.
CutRejectsBadRange ==
    (last.op = "Cut" /\ (\/ last.a > last.b
                         \/ last.b > last.input.len
                         \/ last.a < 0
                         \/ last.b < 0))
    => last.status = "panic"

\* C9: when Cut, Delete or Insert fails, the elements of the caller's input
\* sequence are what they were before the call.
FailureLeavesInput ==
    last.status = "panic" =>
        SubSeq(last.mem, 1, last.input.len) = Contents(last.input)

ValidDelete(c) == c.op = "Delete" /\ 0 <= c.a /\ c.a < c.input.len

\* C10: after a successful Cut, Delete or Insert with valid indices the
\* elements of the caller's input slice, over its original length, are
\* unchanged.
ReturnsNewSlice ==
    ((ValidCut(last) \/ ValidDelete(last) \/ ValidInsert(last))
     /\ last.status = "ok")
    => SubSeq(last.mem, 1, last.input.len) = Contents(last.input)

====
